---- MODULE Spec2Model ----
(***************************************************************************)
(* Model of PacketManipulation (dns_packet_parser.py): the DNS message     *)
(* parser and rewriter of the relay.  One object is built over a byte      *)
(* buffer, parse() decodes it stage by stage and rewrite() assembles the   *)
(* outbound message.  Bytes are integers 0..255, byte strings are          *)
(* sequences of bytes, Python str values are sequences of code points.     *)
(***************************************************************************)
EXTENDS Integers, Sequences, FiniteSets, TLC

\* ------------------------------------------------------------------------
\* Program constants
\* ------------------------------------------------------------------------
TCP == 6
UDP == 17

A_RECORD == 1
CNAME == 5
SOA == 6
OPT == 41

DEFAULT_TTL == 3600
MINIMUM_TTL == 300
MAX_A_RECORD_COUNT == 3

DNS_QUERY == 0
DNS_RESPONSE == 128

\* ------------------------------------------------------------------------
\* Bounds of the model
\* ------------------------------------------------------------------------
\* longest standard+authority record list of the generated responses
MaxRecords == 5
\* largest additional-count header value of the generated responses
MaxAdditional == 2

\* ------------------------------------------------------------------------
\* Python byte-string primitives
\* ------------------------------------------------------------------------
Min(a, b) == IF a < b THEN a ELSE b
Max(a, b) == IF a > b THEN a ELSE b

\* index normalisation of a slice bound: negative counts from the end,
\* everything is clamped into 0..n
SliceIndex(i, n) == IF i < 0 THEN Max(i + n, 0) ELSE Min(i, n)

\* s[lo:hi]
PySlice(s, lo, hi) ==
    LET a == SliceIndex(lo, Len(s))
        b == SliceIndex(hi, Len(s))
    IN  IF a < b THEN SubSeq(s, a + 1, b) ELSE <<>>

\* s[lo:]
PyFrom(s, lo) == PySlice(s, lo, Len(s))

\* s[:hi]
PyUpto(s, hi) == PySlice(s, 0, hi)

\* 1-based index of the first zero byte of s, 0 when there is none
RECURSIVE ZeroFrom(_, _)
ZeroFrom(s, i) ==
    IF i > Len(s) THEN 0 ELSE IF s[i] = 0 THEN i ELSE ZeroFrom(s, i + 1)
FirstZero(s) == ZeroFrom(s, 1)

\* s.split(b'\x00', 1): a list of one or two byte strings
SplitZero(s) ==
    LET z == FirstZero(s)
    IN  IF z = 0 THEN << s >>
        ELSE << SubSeq(s, 1, z - 1), SubSeq(s, z + 1, Len(s)) >>

\* b'\xc0' in s
Contains(s, b) == \E i \in 1..Len(s) : s[i] = b

\* an unsigned 32-bit value, held as its two 16-bit halves: it is
\* hi * 65536 + lo
Long(hi, lo) == [hi |-> hi, lo |-> lo]
LongOf(n) == Long(n \div 65536, n % 65536)
\* l < n and l > n for an n below 65536
LongLess(l, n) == l.hi = 0 /\ l.lo < n
LongGreater(l, n) == l.hi > 0 \/ l.lo > n

\* struct.pack('!H', n), struct.pack('!L', l)
PackH(n) == << n \div 256, n % 256 >>
PackL(l) == PackH(l.hi) \o PackH(l.lo)

\* struct.unpack('!H', b)[0] and struct.unpack('!L', b)[0]; struct.error is
\* raised unless the buffer has exactly the size of the format
CanUnpack(b, size) == Len(b) = size
UnpackH(b) == b[1] * 256 + b[2]
UnpackL(b) == Long(b[1] * 256 + b[2], b[3] * 256 + b[4])

\* Python values of different types never compare equal: a value carries
\* its type and == compares type, then content
PyInt(n) == [t |-> "int", v |-> n]
PyStr(s) == [t |-> "str", v |-> s]
PyTuple(s) == [t |-> "tuple", v |-> s]
PyNone == [t |-> "NoneType", v |-> 0]
PyEq(a, b) == a.t = b.t /\ a.v = b.v
\* truth value of None or an int
Truthy(a) == a.t = "int" /\ a.v # 0

\* str.lower() of one code point below 256
Lower(c) ==
    IF c \in 65..90 \/ c \in 192..214 \/ c \in 216..222 THEN c + 32 ELSE c

\* ------------------------------------------------------------------------
\* Messages the object is constructed over
\* ------------------------------------------------------------------------
\* a length-prefixed label
Label(chars) == << Len(chars) >> \o chars

NameWww == Label(<<119, 119, 119>>) \o Label(<<109, 105, 99, 114, 111>>)
               \o Label(<<99, 111, 109>>)
NameUpper == Label(<<83, 68>>) \o Label(<<77, 105, 99, 114, 111>>)
               \o Label(<<67, 79, 77>>)
NameTwo == Label(<<99, 111>>) \o Label(<<117, 107>>)
NameSingle == Label(<<108, 111, 99, 97, 108>>)
NameRoot == <<>>

QuestionNames == {NameWww, NameUpper, NameTwo, NameSingle, NameRoot}

\* question: name, terminator, qtype, qclass
Question(name) == name \o <<0>> \o PackH(1) \o PackH(1)

HeaderBytes(id, flags, an, ns, ar) ==
    PackH(id) \o <<flags, 128>> \o PackH(1) \o PackH(an) \o PackH(ns) \o PackH(ar)

\* resource record: name, type, class, ttl, rdlength, rdata
RecordBytes(name, rtype, ttl, rdata) ==
    name \o PackH(rtype) \o PackH(1) \o PackL(ttl) \o PackH(Len(rdata)) \o rdata

Pointer == <<192, 12>>
\* a literal name, a literal label followed by a pointer, a literal name
\* with the byte 0xC0 inside a label
NameLiteral == <<1, 97, 0>>
NameLabelPointer == <<1, 97, 192, 12>>
NameHighByte == <<2, 192, 97, 0>>
RecordNames == {Pointer, NameLiteral, NameLabelPointer, NameHighByte}

Addr == <<10, 1, 2, 3>>

\* the records the generated answer lists are made of
RecA == RecordBytes(Pointer, A_RECORD, LongOf(100), Addr)
RecALit == RecordBytes(NameLiteral, A_RECORD, LongOf(7200), Addr)
RecCname == RecordBytes(NameLabelPointer, CNAME, LongOf(1000), Pointer)
RecTxt == RecordBytes(Pointer, 16, LongOf(300), <<1, 120>>)
Templates == {RecA, RecCname, RecTxt}

RecOpt == RecordBytes(<<0>>, OPT, LongOf(0), <<>>)
RecAddA == RecordBytes(Pointer, A_RECORD, LongOf(60), Addr)

TtlSamples ==
    {LongOf(0), LongOf(1), LongOf(299), LongOf(300), LongOf(301), LongOf(3599),
     LongOf(3600), LongOf(3601), LongOf(65535), Long(1, 0), Long(1, 1000),
     Long(32768, 0), Long(65535, 65535)}
RecordTypes == {A_RECORD, CNAME, SOA, 16, OPT}

RECURSIVE Concat(_)
Concat(ss) == IF ss = <<>> THEN <<>> ELSE Head(ss) \o Concat(Tail(ss))

SeqsUpTo(S, n) == UNION {[1..k -> S] : k \in 0..n}

Prefixes(s) == {SubSeq(s, 1, k) : k \in 0..Len(s)}

\* responses over every record list, with all, half or none of the records
\* in the answer section and the rest in the authority section
RecordListInputs ==
    UNION {{HeaderBytes(4660, 129, an, Len(rs) - an, 0) \o Question(NameWww) \o Concat(rs) :
               an \in {Len(rs), Len(rs) \div 2, 0}} :
           rs \in SeqsUpTo(Templates, MaxRecords)}

\* one record of every type, name form and TTL
TtlInputs ==
    {HeaderBytes(4660, 129, 1, 0, 0) \o Question(NameTwo)
         \o RecordBytes(n, ty, t, IF ty = A_RECORD THEN Addr ELSE <<7>>) :
        <<n, ty, t>> \in RecordNames \X RecordTypes \X TtlSamples}

\* additional sections: any declared count over any tail
AdditionalInputs ==
    {HeaderBytes(id, 129, Len(rs), 0, ar) \o Question(NameWww) \o Concat(rs) \o tail :
        <<id, rs, ar, tail>> \in
            {0, 4660} \X {<<>>, <<RecA>>, <<RecCname, RecA>>} \X (0..MaxAdditional)
              \X {<<>>, <<0>>, RecOpt, RecAddA, RecOpt \o RecAddA, RecAddA \o RecOpt}}

\* queries and empty responses over every question name
QuestionInputs ==
    {HeaderBytes(id, fl, 0, 0, 0) \o Question(n) :
        <<id, fl, n>> \in {0, 4660, 65535} \X {1, 129} \X QuestionNames}

\* every truncation of a full response
FullResponse ==
    HeaderBytes(4660, 129, 2, 1, 1) \o Question(NameTwo)
        \o RecA \o RecCname \o RecALit \o RecOpt
TruncatedInputs == Prefixes(FullResponse)

Datagrams ==
    RecordListInputs \cup TtlInputs \cup AdditionalInputs \cup QuestionInputs
        \cup TruncatedInputs

\* what the network layer hands to the constructor: a datagram, or a stream
\* message carrying the 2-byte length prefix
ConstructorInputs ==
    {<<d, UDP>> : d \in Datagrams} \cup {<<PackH(Len(d)) \o d, TCP>> : d \in QuestionInputs}

\* ------------------------------------------------------------------------
\* State
\* ------------------------------------------------------------------------
VARIABLES
    \* attributes set by the constructor
    data, dns_id, qtype, qclass, cache_ttl, dns_opt, dns_response, send_data,
    offset, a_record_count, standard_records, authority_records,
    additional_records,
    \* attributes created while parsing and rewriting; attrs holds the names
    \* of those that exist on the object
    attrs, dns_header, packet_type, question_count, standard_count,
    authority_count, additional_count, query_name, question_record,
    resource_record, request, request2, request_tld, data_to_cache,
    \* position of the call sequence parse(); rewrite() and of the loops of
    \* resource_record_handler
    pc, section, iter,
    \* what the caller and the collaborators observe
    parse_result, rewrite_result, caught, parse_errors,
    \* arguments and locals of the rewrite() call
    arg_dns_id, emitted, appended

initAttrs == << data, dns_id, qtype, qclass, cache_ttl, dns_opt, dns_response,
                send_data, offset, a_record_count, standard_records,
                authority_records, additional_records >>
headerAttrs == << dns_header, packet_type, question_count, standard_count,
                  authority_count, additional_count >>
questionAttrs == << query_name, question_record, resource_record >>
nameAttrs == << request, request2, request_tld >>
control == << pc, section, iter >>
observed == << parse_result, rewrite_result, caught, parse_errors >>
rewriteLocals == << arg_dns_id, emitted, appended >>

vars == << initAttrs, attrs, headerAttrs, questionAttrs, nameAttrs,
           data_to_cache, control, observed, rewriteLocals >>

\* __init__: the stream length prefix is stripped, counters are zero, the
\* record lists and the output are empty
Init ==
    /\ \E in \in ConstructorInputs :
          data = IF in[2] = UDP THEN in[1] ELSE PyFrom(in[1], 2)
    /\ dns_id = 0 /\ qtype = 0 /\ qclass = 0 /\ cache_ttl = 0
    /\ dns_opt = FALSE /\ dns_response = FALSE
    /\ send_data = <<>>
    /\ offset = 0 /\ a_record_count = 0
    /\ standard_records = <<>> /\ authority_records = <<>>
    /\ additional_records = <<>>
    /\ attrs = {}
    /\ dns_header = <<>> /\ packet_type = 0
    /\ question_count = 0 /\ standard_count = 0
    /\ authority_count = 0 /\ additional_count = 0
    /\ query_name = <<>> /\ question_record = <<>> /\ resource_record = <<>>
    /\ request = <<>> /\ request2 = <<>> /\ request_tld = <<>>
    /\ data_to_cache = <<>>
    /\ pc = "header" /\ section = "standard" /\ iter = 0
    /\ parse_result = "running" /\ rewrite_result = "none"
    /\ caught = FALSE /\ parse_errors = <<>>
    /\ arg_dns_id = PyNone /\ emitted = <<>> /\ appended = <<>>

\* parse() leaves through its except clause: the traceback is printed and
\* the call returns normally
Except ==
    /\ pc' = "parsed"
    /\ caught' = TRUE
    /\ parse_result' = "returned"

\* parse() runs to its end
Return ==
    /\ pc' = "parsed"
    /\ caught' = caught
    /\ parse_result' = "returned"

\* ------------------------------------------------------------------------
\* parse(): header()
\* ------------------------------------------------------------------------
\* header() raises on data[:2] shorter than 2 bytes, on a missing byte 2 and
\* on a count block shorter than 8 bytes; assignments made before the raise
\* stay
Header ==
    /\ pc = "header"
    /\ dns_header' = PyUpto(data, 12)
    /\ LET hdr == PyUpto(data, 12)
           idOk == CanUnpack(PyUpto(data, 2), 2)
           flagOk == idOk /\ Len(hdr) >= 3
           countsOk == flagOk /\ CanUnpack(PySlice(hdr, 4, 12), 8)
           bit == IF flagOk THEN (IF hdr[3] >= 128 THEN DNS_RESPONSE ELSE DNS_QUERY)
                  ELSE 0
       IN  /\ dns_id' = IF idOk THEN UnpackH(PyUpto(data, 2)) ELSE dns_id
           /\ packet_type' = bit
           /\ dns_response' = IF flagOk /\ bit # 0 THEN TRUE ELSE dns_response
           /\ question_count' = IF countsOk THEN UnpackH(PySlice(hdr, 4, 6)) ELSE 0
           /\ standard_count' = IF countsOk THEN UnpackH(PySlice(hdr, 6, 8)) ELSE 0
           /\ authority_count' = IF countsOk THEN UnpackH(PySlice(hdr, 8, 10)) ELSE 0
           /\ additional_count' = IF countsOk THEN UnpackH(PySlice(hdr, 10, 12)) ELSE 0
           /\ attrs' = attrs \cup {"dns_header"}
                  \cup (IF flagOk THEN {"packet_type"} ELSE {})
                  \cup (IF flagOk /\ bit = 0 THEN {"dns_query"} ELSE {})
                  \cup (IF countsOk THEN {"counts"} ELSE {})
           /\ IF ~countsOk THEN Except
              ELSE IF bit \in {DNS_QUERY, DNS_RESPONSE}
                   THEN pc' = "question" /\ UNCHANGED << caught, parse_result >>
                   ELSE Return
    /\ UNCHANGED << data, qtype, qclass, cache_ttl, dns_opt, send_data, offset,
                    a_record_count, standard_records, authority_records,
                    additional_records, questionAttrs, nameAttrs, data_to_cache,
                    section, iter, rewrite_result, parse_errors, rewriteLocals >>

\* ------------------------------------------------------------------------
\* parse(): question_record_handler()
\* ------------------------------------------------------------------------
\* raises when the payload has no zero byte (query_info[1]) or fewer than 4
\* bytes after it; nothing is assigned before the raise
QuestionRecordHandler ==
    /\ pc = "question"
    /\ LET dns_payload == PyFrom(data, 12)
           query_info == SplitZero(dns_payload)
           ok == Len(query_info) = 2 /\ CanUnpack(PySlice(query_info[2], 0, 4), 4)
           question_length == Len(query_info[1]) + 1 + 4
       IN  IF ok
           THEN /\ query_name' = query_info[1]
                /\ qtype' = UnpackH(PySlice(query_info[2], 0, 2))
                /\ qclass' = UnpackH(PySlice(query_info[2], 2, 4))
                /\ question_record' = PyUpto(dns_payload, question_length)
                /\ resource_record' = PyFrom(dns_payload, question_length)
                /\ attrs' = attrs \cup {"query_name", "question_record", "resource_record"}
                /\ pc' = "qname"
                /\ UNCHANGED << caught, parse_result >>
           ELSE /\ UNCHANGED << questionAttrs, qtype, qclass, attrs >>
                /\ Except
    /\ UNCHANGED << data, dns_id, cache_ttl, dns_opt, dns_response, send_data,
                    offset, a_record_count, standard_records, authority_records,
                    additional_records, headerAttrs, nameAttrs, data_to_cache,
                    section, iter, rewrite_result, parse_errors, rewriteLocals >>

\* ------------------------------------------------------------------------
\* parse(): get_qname()
\* ------------------------------------------------------------------------
\* the decoding loop over qname[1:]: length counts the bytes left in the
\* current label, a byte met at length 0 is the next length and yields '.'
RECURSIVE QnameLoop(_, _, _)
QnameLoop(bytes, length, qname_raw) ==
    IF bytes = <<>> THEN qname_raw
    ELSE IF length # 0
         THEN QnameLoop(Tail(bytes), length - 1, Append(qname_raw, Head(bytes)))
         ELSE QnameLoop(Tail(bytes), Head(bytes), Append(qname_raw, 46))

\* qname_raw.lower()
LowerStr(str) == [i \in 1..Len(str) |-> Lower(str[i])]

\* '.' in qname: qname is the tuple of the name's byte values
DotInQname(qname) ==
    \E i \in 1..Len(qname) : PyEq(PyStr(<<46>>), PyInt(qname[i]))

\* where the loops of resource_record_handler stand after iteration it of
\* section sec
AfterRecord(sec, it) ==
    IF sec = "standard" /\ it < standard_count THEN << "records", "standard", it >>
    ELSE IF sec = "standard" /\ authority_count > 0 THEN << "records", "authority", 0 >>
    ELSE IF sec = "authority" /\ it < authority_count THEN << "records", "authority", it >>
    ELSE IF additional_count > 0 THEN << "additional", sec, 0 >>
    ELSE << "parsed", sec, it >>

\* raises IndexError on an empty name (qname[0]); the branch guarded by
\* '.' in qname calls qname.split, which a tuple does not have
GetQname ==
    /\ pc = "qname"
    /\ IF query_name = <<>>
       THEN /\ UNCHANGED << nameAttrs, attrs, section, iter >>
            /\ Except
       ELSE /\ request' = LowerStr(QnameLoop(Tail(query_name), query_name[1], <<>>))
            /\ UNCHANGED << request2, request_tld >>
            /\ attrs' = attrs \cup {"request"}
            /\ IF DotInQname(query_name)
               THEN /\ UNCHANGED << section, iter >>
                    /\ Except
               ELSE IF packet_type = DNS_RESPONSE
                    THEN LET next == AfterRecord("standard", 0)
                         IN  /\ pc' = next[1] /\ section' = next[2] /\ iter' = next[3]
                             /\ caught' = caught
                             /\ parse_result' = IF next[1] = "parsed" THEN "returned"
                                                ELSE parse_result
                    ELSE /\ UNCHANGED << section, iter >>
                         /\ Return
    /\ UNCHANGED << initAttrs, headerAttrs, questionAttrs, data_to_cache,
                    rewrite_result, parse_errors, rewriteLocals >>

\* ------------------------------------------------------------------------
\* parse(): resource_record_handler(), standard and authority records
\* ------------------------------------------------------------------------
\* the name a record starts with: 2 bytes when the first byte is 0xC0,
\* else the bytes before the first zero byte
RecordName(rdata) ==
    IF Len(rdata) > 0 /\ rdata[1] = 192 THEN PyUpto(rdata, 2)
    ELSE SplitZero(rdata)[1]

\* nlen with the pad counted for every name that does not start with 0xC0
NameLengthPadUnlessLeadingPointer(rdata) ==
    IF Len(rdata) > 0 /\ rdata[1] = 192 THEN Len(RecordName(rdata))
    ELSE Len(RecordName(rdata)) + 1

\* nlen: the zero pad is counted unless the name holds a byte 0xC0
NameLength(rdata) ==
    LET record_name == RecordName(rdata)
    IN  IF ~Contains(record_name, 192) THEN Len(record_name) + 1
        ELSE Len(record_name)

\* record_length for a type and data length
RecordLength(record_type, data_length, nlen) ==
    IF record_type = A_RECORD THEN 10 + 4 + nlen
    ELSE IF record_type \in {CNAME, SOA} THEN 10 + data_length + nlen
    ELSE -1

\* get_record_type(data): raised tells that struct.error left the call,
\* logged that record_parse_error was called before it returned or raised
get_record_type(rdata) ==
    LET nlen == NameLength(rdata)
        typeOk == CanUnpack(PySlice(rdata, nlen, nlen + 2), 2)
        record_type == IF typeOk THEN UnpackH(PySlice(rdata, nlen, nlen + 2)) ELSE 0
        sized == typeOk /\ record_type \in {CNAME, SOA}
        lenOk == typeOk /\ (sized => CanUnpack(PySlice(rdata, nlen + 8, nlen + 10), 2))
        data_length == IF sized /\ lenOk
                       THEN UnpackH(PySlice(rdata, nlen + 8, nlen + 10)) ELSE 0
        ttlOk == lenOk /\ CanUnpack(PySlice(rdata, nlen + 4, nlen + 8), 4)
    IN  [raised |-> ~ttlOk,
         logged |-> typeOk /\ record_type \notin {A_RECORD, CNAME, SOA},
         record_type |-> record_type,
         record_length |-> RecordLength(record_type, data_length, nlen),
         record_ttl |-> IF ttlOk THEN UnpackL(PySlice(rdata, nlen + 4, nlen + 8))
                        ELSE LongOf(0),
         nlen |-> nlen]

\* one iteration of the record loop: the record at the cursor is classified,
\* sliced by its computed length and appended, the cursor moves by the length
ScanRecord ==
    /\ pc = "records"
    /\ LET rdata == PyFrom(resource_record, offset)
           info == get_record_type(rdata)
           entry == [record_type |-> info.record_type, record_ttl |-> info.record_ttl,
                     nlen |-> info.nlen, record |-> PyUpto(rdata, info.record_length)]
           next == AfterRecord(section, iter + 1)
       IN  /\ parse_errors' = IF info.logged
                              THEN Append(parse_errors,
                                     [rtype |-> info.record_type, nlen |-> info.nlen,
                                      data |-> rdata])
                              ELSE parse_errors
           /\ IF info.raised
              THEN /\ UNCHANGED << standard_records, authority_records, offset,
                                   section, iter >>
                   /\ Except
              ELSE /\ standard_records' = IF section = "standard"
                                          THEN Append(standard_records, entry)
                                          ELSE standard_records
                   /\ authority_records' = IF section = "authority"
                                           THEN Append(authority_records, entry)
                                           ELSE authority_records
                   /\ offset' = offset + info.record_length
                   /\ pc' = next[1] /\ section' = next[2] /\ iter' = next[3]
                   /\ caught' = caught
                   /\ parse_result' = IF next[1] = "parsed" THEN "returned"
                                      ELSE parse_result
    /\ UNCHANGED << data, dns_id, qtype, qclass, cache_ttl, dns_opt, dns_response,
                    send_data, a_record_count, additional_records, attrs,
                    headerAttrs, questionAttrs, nameAttrs, data_to_cache,
                    rewrite_result, rewriteLocals >>

\* ------------------------------------------------------------------------
\* parse(): resource_record_handler(), additional records
\* ------------------------------------------------------------------------
\* additional_type == OPT, additional_type being the tuple struct.unpack
\* returns
IsOpt(bytes) == PyEq(PyTuple(<< UnpackH(bytes) >>), PyInt(OPT))

\* one iteration of the additional loop: the rest of the buffer from the
\* cursor is appended as it is, the cursor does not move
ScanAdditional ==
    /\ pc = "additional"
    /\ LET rdata == PyFrom(resource_record, offset)
       IN  IF ~CanUnpack(PySlice(rdata, 1, 3), 2)
           THEN /\ UNCHANGED << dns_opt, additional_records, iter >>
                /\ Except
           ELSE /\ dns_opt' = IF IsOpt(PySlice(rdata, 1, 3)) THEN TRUE ELSE dns_opt
                /\ additional_records' = Append(additional_records, rdata)
                /\ iter' = iter + 1
                /\ pc' = IF iter + 1 < additional_count THEN "additional" ELSE "parsed"
                /\ caught' = caught
                /\ parse_result' = IF iter + 1 < additional_count THEN parse_result
                                   ELSE "returned"
    /\ UNCHANGED << data, dns_id, qtype, qclass, cache_ttl, dns_response, send_data,
                    offset, a_record_count, standard_records, authority_records,
                    attrs, headerAttrs, questionAttrs, nameAttrs, data_to_cache,
                    section, rewrite_result, parse_errors, rewriteLocals >>

\* ------------------------------------------------------------------------
\* rewrite()
\* ------------------------------------------------------------------------
\* the clamp with the upper limit taken from the response_ttl argument
EffectiveTtlFromArgument(record_ttl, response_ttl) ==
    IF LongLess(record_ttl, MINIMUM_TTL) THEN LongOf(MINIMUM_TTL)
    ELSE IF LongGreater(record_ttl, response_ttl) THEN LongOf(response_ttl)
    ELSE record_ttl

\* the TTL a record is re-emitted with
EffectiveTtl(record_ttl, response_ttl) ==
    IF LongLess(record_ttl, MINIMUM_TTL) THEN LongOf(MINIMUM_TTL)
    ELSE IF LongGreater(record_ttl, DEFAULT_TTL) THEN LongOf(DEFAULT_TTL)
    ELSE record_ttl

\* ttl_rewrite: the record with the 4 bytes at nlen+4 replaced
ttl_rewrite(record_info, response_ttl) ==
    PyUpto(record_info.record, record_info.nlen + 4)
        \o PackL(EffectiveTtl(record_info.record_ttl, response_ttl))
        \o PyFrom(record_info.record, record_info.nlen + 8)

\* the cap test with <= for <
KeepRecordOffByOne(record_type, count) ==
    record_type # A_RECORD \/ count <= MAX_A_RECORD_COUNT

\* the condition under which rewrite() passes a record to ttl_rewrite
KeepRecord(record_type, count) ==
    record_type # A_RECORD \/ count < MAX_A_RECORD_COUNT

\* the loops of rewrite() over the standard, then the authority records;
\* acc carries a_record_count, cache_ttl, the bytes built so far and the
\* records emitted
RECURSIVE RewriteRecords(_, _, _)
RewriteRecords(all_records, response_ttl, acc) ==
    IF all_records = <<>> THEN acc
    ELSE LET record_info == Head(all_records)
         IN  IF KeepRecord(record_info.record_type, acc.a_record_count)
             THEN RewriteRecords(Tail(all_records), response_ttl,
                    [a_record_count |->
                         IF record_info.record_type = A_RECORD
                         THEN acc.a_record_count + 1 ELSE acc.a_record_count,
                     cache_ttl |-> EffectiveTtl(record_info.record_ttl, response_ttl).lo,
                     resource_record |->
                         acc.resource_record \o ttl_rewrite(record_info, response_ttl),
                     emitted |->
                         Append(acc.emitted,
                                [info |-> record_info,
                                 record |-> ttl_rewrite(record_info, response_ttl)])])
             ELSE RewriteRecords(Tail(all_records), response_ttl, acc)

\* the condition under which the answer count of the header is overwritten
PatchAnswerCount(count) == count = MAX_A_RECORD_COUNT

\* the condition under which the transaction id is replaced: if (dns_id)
ReplaceId(id) == Truthy(id)

DnsIdArgs == {PyNone} \cup {PyInt(n) : n \in {0, 43981, 65535}}
ResponseTtlArgs == {DEFAULT_TTL, 60}

\* rewrite(dns_id, response_ttl); AttributeError leaves the call at the
\* first use of an attribute parse() did not create
Rewrite ==
    /\ pc = "parsed"
    /\ pc' = "done"
    /\ \E id \in DnsIdArgs, response_ttl \in ResponseTtlArgs :
        LET acc == RewriteRecords(standard_records \o authority_records, response_ttl,
                       [a_record_count |-> a_record_count, cache_ttl |-> cache_ttl,
                        resource_record |-> <<>>, emitted |-> <<>>])
            patched == IF PatchAnswerCount(acc.a_record_count)
                       THEN PyUpto(dns_header, 6) \o PackH(MAX_A_RECORD_COUNT)
                                \o PyFrom(dns_header, 8)
                       ELSE dns_header
            final == IF ReplaceId(id) THEN PackH(id.v) \o PyFrom(patched, 2) ELSE patched
        IN  /\ arg_dns_id' = id
            /\ a_record_count' = acc.a_record_count
            /\ cache_ttl' = acc.cache_ttl
            /\ emitted' = acc.emitted
            /\ IF "question_record" \notin attrs
               THEN /\ dns_header' = patched
                    /\ rewrite_result' = "raised"
                    /\ UNCHANGED << data_to_cache, send_data, appended, attrs >>
               ELSE /\ data_to_cache' = PyUpto(patched, 10) \o <<0, 0>>
                                            \o question_record \o acc.resource_record
                    /\ attrs' = attrs \cup {"data_to_cache"}
                    /\ appended' = Concat(additional_records)
                    /\ dns_header' = final
                    /\ send_data' = send_data \o final \o question_record
                                        \o acc.resource_record \o Concat(additional_records)
                    /\ rewrite_result' = "returned"
    /\ UNCHANGED << data, dns_id, qtype, qclass, dns_opt, dns_response, offset,
                    standard_records, authority_records, additional_records,
                    packet_type, question_count, standard_count, authority_count,
                    additional_count, questionAttrs, nameAttrs, section, iter,
                    parse_result, caught, parse_errors >>

Next ==
    \/ Header
    \/ QuestionRecordHandler
    \/ GetQname
    \/ ScanRecord
    \/ ScanAdditional
    \/ Rewrite

Spec == Init /\ [][Next]_vars

\* ------------------------------------------------------------------------
\* Reading the output buffer
\* ------------------------------------------------------------------------
Supported == {A_RECORD, CNAME, SOA}

\* rewrite() returned a buffer
Rewritten == pc = "done" /\ rewrite_result = "returned"

\* parse() ran through every stage without an exception and without a
\* record of unknown type
ParsedCleanly == pc \in {"parsed", "done"} /\ ~caught /\ parse_errors = <<>>

RECURSIVE TotalLength(_)
TotalLength(es) ==
    IF es = <<>> THEN 0 ELSE Len(Head(es).record) + TotalLength(Tail(es))

\* 0-based position in send_data of the i-th emitted record: after the
\* 12-byte header, the question and the records emitted before it
EmittedStart(i) == 12 + Len(question_record) + TotalLength(SubSeq(emitted, 1, i - 1))

\* the bytes of send_data that hold the i-th emitted record
EmittedBytes(i) ==
    PySlice(send_data, EmittedStart(i), EmittedStart(i) + Len(emitted[i].record))

\* the bytes of send_data after the last emitted record
OutputTail == PyFrom(send_data, EmittedStart(Len(emitted) + 1))

CountA(records) == Cardinality({i \in 1..Len(records) : records[i].record_type = A_RECORD})

\* the number of A records in send_data: type fields equal to 1
OutputA ==
    Cardinality({i \in 1..Len(emitted) :
        PySlice(EmittedBytes(i), emitted[i].info.nlen, emitted[i].info.nlen + 2)
            = PackH(A_RECORD)})

\* 300 if t < 300, 3600 if t > 3600, t otherwise
Clamp(t) ==
    IF t.hi = 0 /\ t.lo < 300 THEN Long(0, 300)
    ELSE IF t.hi > 0 \/ t.lo > 3600 THEN Long(0, 3600)
    ELSE t

\* ------------------------------------------------------------------------
\* C1
\* ------------------------------------------------------------------------
\* C1: in the buffer rewrite() returns, the TTL field at offset nlen+4 of
\* every emitted standard or authority record is 300 when the parsed TTL is
\* below 300, 3600 when it is above 3600 and the parsed TTL otherwise,
\* whatever response_ttl was passed.
C1_TtlClamped ==
    Rewritten =>
        \A i \in 1..Len(emitted) :
            PySlice(EmittedBytes(i), emitted[i].info.nlen + 4, emitted[i].info.nlen + 8)
                = PackL(Clamp(emitted[i].info.record_ttl))

\* a buffer with a raised, a lowered and a retained TTL
C1_Witness ==
    /\ Rewritten
    /\ \E i, j, k \in 1..Len(emitted) :
          /\ LongLess(emitted[i].info.record_ttl, 300)
          /\ LongGreater(emitted[j].info.record_ttl, 3600)
          /\ emitted[k].info.record_ttl = Long(0, 1000)

\* ------------------------------------------------------------------------
\* C2
\* ------------------------------------------------------------------------
\* C2: when the parsed standard and authority lists hold more than 3 A
\* records, the buffer rewrite() returns holds exactly 3 A records and its
\* answer count (bytes 6..7) is 3.
C2_ARecordCap ==
    (Rewritten /\ CountA(standard_records \o authority_records) > MAX_A_RECORD_COUNT) =>
        /\ OutputA = 3
        /\ PySlice(send_data, 6, 8) = PackH(3)

\* more than 3 A records with a CNAME among them
C2_Witness ==
    /\ Rewritten
    /\ CountA(standard_records \o authority_records) > MAX_A_RECORD_COUNT
    /\ \E i \in 1..Len(standard_records) :
          /\ standard_records[i].record_type = CNAME
          /\ CountA(SubSeq(standard_records, 1, i)) \in 1..2

\* ------------------------------------------------------------------------
\* C3
\* ------------------------------------------------------------------------
\* a record of the parsed lists is missing from the output
Dropped == Len(emitted) < Len(standard_records) + Len(authority_records)

\* C3: the answer count of the returned buffer differs from the parsed
\* answer count only when an A record was dropped; when nothing was dropped
\* it equals the parsed answer count and the number of answer records
\* emitted.
C3_AnswerCountPatchedOnlyOnDrop ==
    Rewritten =>
        /\ PySlice(send_data, 6, 8) # PackH(standard_count) => Dropped
        /\ (~Dropped /\ ~caught) =>
              /\ PySlice(send_data, 6, 8) = PackH(standard_count)
              /\ standard_count = Len(standard_records)

\* ------------------------------------------------------------------------
\* C4
\* ------------------------------------------------------------------------
\* C4: a record whose type is not A, CNAME or SOA is never appended to a
\* section list, and no step of the scan moves the cursor backwards.
C4_ScanStopsAtUnknownType ==
    [][/\ offset' >= offset
       /\ \A i \in 1..Len(standard_records') :
              standard_records'[i].record_type \in Supported
       /\ \A i \in 1..Len(authority_records') :
              authority_records'[i].record_type \in Supported]_vars

\* ------------------------------------------------------------------------
\* C5
\* ------------------------------------------------------------------------
\* a decoding stage failed: an exception left a stage, or a record got the
\* negative length
DecodingFailed == caught \/ parse_errors # <<>>

\* C5: when a decoding stage fails, parse() raises to its caller and a
\* following rewrite() leaves send_data empty.
C5_FailureSurfaced ==
    (pc \in {"parsed", "done"} /\ DecodingFailed) =>
        /\ parse_result = "raised"
        /\ send_data = <<>>

\* ------------------------------------------------------------------------
\* C6
\* ------------------------------------------------------------------------
\* index of the last byte of the name that starts at byte i of b, in the
\* wire format: labels up to a zero byte or a 2-byte pointer; 0 when the
\* buffer ends first
RECURSIVE WireNameEnd(_, _)
WireNameEnd(b, i) ==
    IF i > Len(b) THEN 0
    ELSE IF b[i] = 0 THEN i
    ELSE IF b[i] >= 192 THEN (IF i + 1 > Len(b) THEN 0 ELSE i + 1)
    ELSE WireNameEnd(b, i + 1 + b[i])

\* the types of the records laid out in b
RECURSIVE WireTypes(_)
WireTypes(b) ==
    LET e == WireNameEnd(b, 1)
    IN  IF e = 0 \/ Len(b) < e + 10 THEN <<>>
        ELSE << UnpackH(SubSeq(b, e + 1, e + 2)) >>
                 \o WireTypes(PyFrom(b, e + 10 + UnpackH(SubSeq(b, e + 9, e + 10))))

\* one of the additional records the header declares is an OPT record
AdditionalHasOpt ==
    LET types == WireTypes(PyFrom(resource_record, offset))
    IN  \E i \in 1..Min(additional_count, Len(types)) : types[i] = OPT

\* C6: after parse(), dns_opt is true when the additional section holds an
\* OPT record and false when it holds none.
C6_OptFlag ==
    (ParsedCleanly /\ "resource_record" \in attrs /\ packet_type = DNS_RESPONSE) =>
        (dns_opt <=> AdditionalHasOpt)

\* ------------------------------------------------------------------------
\* C7
\* ------------------------------------------------------------------------
\* C7: with additional_count >= 1, the bytes of the returned buffer after
\* the rewritten records are the input's bytes from the final scan offset,
\* once.
C7_AdditionalOnce ==
    (Rewritten /\ ParsedCleanly /\ additional_count >= 1) =>
        OutputTail = PyFrom(resource_record, offset)

\* ------------------------------------------------------------------------
\* C8
\* ------------------------------------------------------------------------
\* C8: the first 2 bytes of the returned buffer are the big-endian id passed
\* to rewrite(), for every id in 0..65535, and the parsed id when none is
\* passed; the other header bytes are those the buffer has without the
\* substitution.
C8_IdSubstituted ==
    Rewritten =>
        /\ arg_dns_id.t = "int" => PySlice(send_data, 0, 2) = PackH(arg_dns_id.v)
        /\ arg_dns_id.t = "NoneType" => PySlice(send_data, 0, 2) = PackH(dns_id)
        /\ PySlice(send_data, 2, 6) = PySlice(data, 2, 6)
        /\ PySlice(send_data, 6, 8) \in {PySlice(data, 6, 8), PackH(MAX_A_RECORD_COUNT)}
        /\ PySlice(send_data, 8, 12) = PySlice(data, 8, 12)

\* ------------------------------------------------------------------------
\* C9
\* ------------------------------------------------------------------------
\* the labels of a length-prefixed name
RECURSIVE WireLabels(_)
WireLabels(name) ==
    IF name = <<>> \/ Len(name) < 1 + name[1] THEN <<>>
    ELSE << SubSeq(name, 2, 1 + name[1]) >>
             \o WireLabels(SubSeq(name, 2 + name[1], Len(name)))

\* labels joined by '.'
RECURSIVE Dotted(_)
Dotted(labels) ==
    IF labels = <<>> THEN <<>>
    ELSE IF Len(labels) = 1 THEN labels[1]
    ELSE labels[1] \o <<46>> \o Dotted(Tail(labels))

\* get_qname() was called
QnameDecoded ==
    pc \notin {"header", "question", "qname"} /\ "query_name" \in attrs

\* C9: after get_qname() on a name of two or more labels, request is the
\* lowercase dotted name, request2 its last two labels and request_tld '.'
\* and its last label; on a single-label name neither is produced and the
\* stage does not fail.
C9_NameViews ==
    QnameDecoded =>
        LET labels == WireLabels(query_name)
            n == Len(labels)
        IN  /\ n >= 2 =>
                 /\ request = LowerStr(Dotted(labels))
                 /\ {"request2", "request_tld"} \subseteq attrs
                 /\ request2 = LowerStr(Dotted(SubSeq(labels, n - 1, n)))
                 /\ request_tld = <<46>> \o LowerStr(labels[n])
            /\ n = 1 =>
                 /\ request = LowerStr(labels[1])
                 /\ "request2" \notin attrs /\ "request_tld" \notin attrs
                 /\ packet_type = DNS_QUERY => ~caught

\* ------------------------------------------------------------------------
\* C10
\* ------------------------------------------------------------------------
\* the bytes at the cursor
Cursor == PyFrom(resource_record, offset)

\* a step of the scan that appended a record
Appended ==
    /\ pc = "records"
    /\ Len(standard_records') + Len(authority_records')
           > Len(standard_records) + Len(authority_records)

\* the record that step appended
NewEntry ==
    IF section = "standard" THEN standard_records'[Len(standard_records')]
    ELSE authority_records'[Len(authority_records')]

\* 4 for an A record, else the 16-bit field at nlen+8
DataLength(rdata, entry) ==
    IF entry.record_type = A_RECORD THEN 4
    ELSE UnpackH(PySlice(rdata, entry.nlen + 8, entry.nlen + 10))

\* type and TTL are read at nlen and nlen+4; for A, CNAME and SOA the slice
\* is the nlen+10+dataLength bytes at the cursor and the cursor advances by
\* as much
FieldsAndAdvance(rdata, entry) ==
    /\ entry.record_type = UnpackH(PySlice(rdata, entry.nlen, entry.nlen + 2))
    /\ entry.record_ttl = UnpackL(PySlice(rdata, entry.nlen + 4, entry.nlen + 8))
    /\ entry.record_type \in Supported =>
          /\ entry.record = PyUpto(rdata, entry.nlen + 10 + DataLength(rdata, entry))
          /\ offset' = offset + entry.nlen + 10 + DataLength(rdata, entry)

====
